---- MODULE Spec2Model ----
(***************************************************************************)
(* Model of the mention synchronisation engine of the chat dashboard front *)
(* end (src/frontend/main.js): the in-memory mention cache, its persisted  *)
(* copy in localStorage, the user configuration, the polling timer, and    *)
(* the asynchronous fetchMentions / hide handlers with their requests in   *)
(* flight.  JavaScript runs one handler at a time, so every synchronous    *)
(* stretch of code (up to an await, and from an await's resumption to the  *)
(* end of the handler) is one atomic action.                               *)
(***************************************************************************)
EXTENDS Integers, Sequences, FiniteSets

\* ---------------------------------------------------------------- bounds
\* Mention ids the server hands out.
MaxId == 2
\* Server timestamps (naive wall-clock hours, as the server sends them).
MaxTime == 2
\* Longest batch a mention response carries.
MaxBatch == 2
\* Mention requests that may be in flight together (overlapping syncs).
MaxInFlight == 2
\* DELETE requests that may be in flight together.
MaxDeletes == 1
\* Longest batch a mention response carries where the page's tabs are clicked.
MaxPageBatch == 1

\* --------------------------------------------------- program constants
\* new Date(newMention.timestamp + "-06:00"): the server's naive timestamp
\* is read as UTC-6, so the instant is 6 hours later on the UTC axis.
TZOffset == 6

Ids == 1..MaxId
Times == 1..MaxTime

\* let currentUserConfig = { username: "YourUsername", play_alert: false,
\*                           polling_interval: 5 }
DefaultConfig ==
    [username |-> "YourUsername", play_alert |-> FALSE, polling_interval |-> 5]

\* Usernames the user types into the configuration form.
Users == {"YourUsername", "alice"}

\* Usernames of the configuration form, the empty field among them.
FormUsers == Users \cup {""}

\* The data-channel values of the tabs of CHANNEL_TABS.
Channels == {"trade", "help", "advanced-search"}

\* Texts the user types into the polling-interval field.
IntervalInputs == {"5"}

\* Texts the polling-interval field can be submitted with: a count of
\* seconds, zero, a negative number, nothing.
FormIntervals == {"5", "0", "-5", ""}

\* The JavaScript number NaN and the JSON value null, where a number is
\* expected: two values apart from every number of the model.
NaN == -1000
JSONNull == -1001

\* parseInt(text, 10) on the texts above.
ParseInt(text) ==
    CASE text = "5" -> 5
      [] text = "10" -> 10
      [] text = "0" -> 0
      [] text = "-5" -> -5
      [] text = "" -> NaN

\* JSON.stringify of a number: NaN becomes null.
NumberToJSON(n) == IF n = NaN THEN JSONNull ELSE n

\* JSON.stringify(currentUserConfig) / JSON.parse of that text.
ConfigToJSON(config) ==
    [username |-> config.username, play_alert |-> config.play_alert,
     polling_interval |-> NumberToJSON(config.polling_interval)]

ConfigFromJSON(j) ==
    [username |-> j.username, play_alert |-> j.play_alert,
     polling_interval |-> j.polling_interval]

\* delay * 1000 as setInterval takes it: NaN and null * 1000 (which is 0)
\* both arm a timer of 0 ms.
IntervalMs(n) == IF n \in {NaN, JSONNull} THEN 0 ELSE n * 1000

\* A localStorage entry: getItem gives null (present = FALSE, the value is
\* then of no account) or a text; the text is the JSON of a value, or a
\* text JSON.parse rejects (valid = FALSE, the value is then of no account).
Item(v) == [present |-> TRUE, valid |-> TRUE, value |-> v]
NoMentionsItem == [present |-> FALSE, valid |-> TRUE, value |-> <<>>]
NoConfigItem == [present |-> FALSE, valid |-> TRUE, value |-> DefaultConfig]
MalformedMentionsItem == [present |-> TRUE, valid |-> FALSE, value |-> <<>>]
MalformedConfigItem == [present |-> TRUE, valid |-> FALSE, value |-> DefaultConfig]

\* JSON.parse(text) throws a SyntaxError.
ParseThrows(item) == item.present /\ ~item.valid

VARIABLES
    phase,               \* "loading": module script has run, DOMContentLoaded pending; "ready"
    currentUserConfig,   \* let currentUserConfig
    localMentionsCache,  \* let localMentionsCache: sequence of mention records
    storedConfig,        \* localStorage 'userConfig' (NoItem or the JSON value)
    storedMentions,      \* localStorage 'localMentionsCache' (NoItem or the JSON array)
    mentionsLog,         \* MENTIONS_LOG_ELEMENT: [error, items] (ids of the rendered buttons)
    pollingIntervalId,   \* let pollingIntervalId: [active, period (ms), handle]
    liveTimers,          \* the handles of the interval timers the browser has armed
    activeChannel,       \* let activeChannel
    inflight,            \* GET /api/mentions requests awaiting their response, in issue
                         \* order: the username each asked for (its since bound has no
                         \* part in what the page does with the response)
    lastRequest,         \* the GET /api/mentions request the last step sent, if it sent one
    deletes,             \* DELETE /api/mentions/{id} requests awaiting their response (the ids)
    lastOp,              \* history: the handler step that ran last, [op, arg]: arg is the
                         \* length of the response list (merge), the mention id (hide),
                         \* 1 for a click on the advanced-search tab (tab)
    soundPlayed,         \* history: the last step called MENTION_SOUND.play()
    alertShown,          \* history: the last step called window.alert(...)
    prevUsername,        \* history: the username the last identity change replaced
    replay,              \* history, used by SpecReplay and SpecSwap alone: the batches
                         \* the server sends, how many were merged, the cache to compare
    mailbox              \* the mailbox monitor page (src/frontend/mailbox.js): its
                         \* textarea, its localStorage entry, its requests in flight,
                         \* whether its interval timer is armed

vars == <<phase, currentUserConfig, localMentionsCache, storedConfig, storedMentions,
          mentionsLog, pollingIntervalId, liveTimers, activeChannel, inflight,
          lastRequest, deletes, lastOp, soundPlayed, alertShown, prevUsername, replay,
          mailbox>>

\* ------------------------------------------------------------ conversions
\* new Date(naive + "-06:00"): the instant of a server timestamp.
ParseServerTimestamp(naive) == naive + TZOffset

\* date.toISOString() / JSON.stringify(date): the UTC text of an instant.
ToISOString(instant) == [iso |-> instant]

\* The since parameter of a mention request: absent (latestTimestamp is
\* null), or the ISO text appended to the URL.
NoSince == [present |-> FALSE, text |-> ToISOString(0)]
Since(text) == [present |-> TRUE, text |-> text]

\* new Date(isoText): the instant of a UTC text.
ParseISO(text) == text.iso

\* v || false on a wire or stored value of is_hidden.
OrFalse(v) == v = "true"

\* JSON text of a boolean.
BoolToJSON(b) == IF b THEN "true" ELSE "false"

\* A JSON text of a cached mention that leaves the is_hidden field out.
MentionToJSONWithoutFlag(m) ==
    [id |-> m.id, timestamp |-> ToISOString(m.timestamp),
     is_hidden |-> "undefined", mentioned_user |-> m.mentioned_user]

\* JSON.stringify of one cached mention.
MentionToJSON(m) ==
    [id |-> m.id, timestamp |-> ToISOString(m.timestamp),
     is_hidden |-> BoolToJSON(m.is_hidden), mentioned_user |-> m.mentioned_user]

\* JSON.stringify(localMentionsCache)
Stringify(cache) == [i \in 1..Len(cache) |-> MentionToJSON(cache[i])]

\* A load that shows every stored mention again.
MentionFromJSONVisible(j) ==
    [id |-> j.id, timestamp |-> ParseISO(j.timestamp),
     is_hidden |-> FALSE, mentioned_user |-> j.mentioned_user]

\* The forEach of loadConfigFromLocalStorage on one parsed stored mention.
MentionFromJSON(j) ==
    [id |-> j.id, timestamp |-> ParseISO(j.timestamp),
     is_hidden |-> OrFalse(j.is_hidden), mentioned_user |-> j.mentioned_user]

\* ------------------------------------------------------- fetchMentions
\* The cursor taken over every cached mention, hidden or not.
AllMentions(cache) == cache

\* localMentionsCache.filter(m => !m.is_hidden)
VisibleMentions(cache) == SelectSeq(cache, LAMBDA m : ~m.is_hidden)

\* visibleMentions.reduce((maxTs, mention) =>
\*   new Date(mention.timestamp) > new Date(maxTs) ? mention.timestamp : maxTs,
\*   visibleMentions[0].timestamp), over the first n elements.
RECURSIVE ReduceMaxTs(_, _)
ReduceMaxTs(visible, n) ==
    IF n = 0 THEN visible[1].timestamp
    ELSE LET maxTs == ReduceMaxTs(visible, n - 1)
         IN IF visible[n].timestamp > maxTs THEN visible[n].timestamp ELSE maxTs

\* The cursor of fetchMentions: latestTimestamp, then the since parameter.
LatestSince(cache) ==
    LET visibleMentions == VisibleMentions(cache)
    IN IF Len(cache) > 0 /\ Len(visibleMentions) > 0
       THEN Since(ToISOString(ReduceMaxTs(visibleMentions, Len(visibleMentions))))
       ELSE NoSince

\* The request fetchMentions issues: the URL's username and since.
MentionRequest(config, cache) ==
    [username |-> config.username, since |-> LatestSince(cache)]

\* The first two statements of the forEach body: the wire record as the
\* object that goes into the cache.
Normalise(newMention) ==
    [id |-> newMention.id,
     timestamp |-> ParseServerTimestamp(newMention.timestamp),
     is_hidden |-> OrFalse(newMention.is_hidden),
     mentioned_user |-> newMention.mentioned_user]

\* localMentionsCache.findIndex(m => m.id === id); 0 stands for -1.
RECURSIVE FindIndexFrom(_, _, _)
FindIndexFrom(cache, id, i) ==
    IF i > Len(cache) THEN 0
    ELSE IF cache[i].id = id THEN i
    ELSE FindIndexFrom(cache, id, i + 1)

FindIndex(cache, id) == FindIndexFrom(cache, id, 1)

\* MergeOne without the some() test: every record of the batch is pushed.
MergeOneAlwaysPush(cache, newMention) == Append(cache, Normalise(newMention))

\* One iteration of newMentions.forEach: push a new id, overwrite a known one.
MergeOne(cache, newMention) ==
    LET nm == Normalise(newMention)
        existingIndex == FindIndex(cache, nm.id)
    IN IF ~(\E i \in 1..Len(cache) : cache[i].id = nm.id)
       THEN Append(cache, nm)
       ELSE IF existingIndex # 0
            THEN [cache EXCEPT ![existingIndex] = nm]
            ELSE cache

\* newMentions.forEach(...) over the first n records of the batch.
RECURSIVE MergeAll(_, _, _)
MergeAll(cache, newMentions, n) ==
    IF n = 0 THEN cache
    ELSE MergeOne(MergeAll(cache, newMentions, n - 1), newMentions[n])

\* An insertion that puts m in front of the elements of its own timestamp.
RECURSIVE InsertDescBeforeTies(_, _)
InsertDescBeforeTies(sorted, m) ==
    IF sorted = <<>> THEN <<m>>
    ELSE IF Head(sorted).timestamp > m.timestamp
         THEN <<Head(sorted)>> \o InsertDescBeforeTies(Tail(sorted), m)
         ELSE <<m>> \o sorted

\* Array.prototype.sort is stable; the comparator b.timestamp - a.timestamp
\* orders by timestamp descending.  Insert m behind every element that is
\* not older than it.
RECURSIVE InsertDesc(_, _)
InsertDesc(sorted, m) ==
    IF sorted = <<>> THEN <<m>>
    ELSE IF Head(sorted).timestamp >= m.timestamp
         THEN <<Head(sorted)>> \o InsertDesc(Tail(sorted), m)
         ELSE <<m>> \o sorted

RECURSIVE SortPrefix(_, _)
SortPrefix(cache, n) ==
    IF n = 0 THEN <<>> ELSE InsertDesc(SortPrefix(cache, n - 1), cache[n])

\* A merge that leaves the cache in the order of the pushes.
SortSkipped(cache) == cache

SortDesc(cache) == SortPrefix(cache, Len(cache))

\* A merge that starts from nothing: the response replaces the cache.
MergedCacheReplaces(cache, newMentions) ==
    SortDesc(MergeAll(<<>>, newMentions, Len(newMentions)))

\* The cache after a successful response: the forEach, then the sort.
MergedCache(cache, newMentions) ==
    SortDesc(MergeAll(cache, newMentions, Len(newMentions)))

\* playSound without the play_alert test.
PlaySoundAlways(newMentions, config) == Len(newMentions) > 0

\* let playSound: newMentions.length > 0 && currentUserConfig.play_alert
PlaySound(newMentions, config) == Len(newMentions) > 0 /\ config.play_alert

\* displayMentions(): one button per cached mention that is not hidden.
RenderedIds(cache) ==
    LET visible == VisibleMentions(cache)
    IN [i \in 1..Len(visible) |-> visible[i].id]

DisplayMentions(cache) == [error |-> FALSE, items |-> RenderedIds(cache)]

\* MENTIONS_LOG_ELEMENT.innerHTML = '<p>Error loading mentions.</p>'
ErrorLog == [error |-> TRUE, items |-> <<>>]

\* ------------------------------------------------------------ environment
\* What the server may answer to a mention request for username u: any
\* list of at most MaxBatch records of that user's feed, ids repeated or
\* not, each with or without a hidden mark.
WireMentions(u) ==
    [id : Ids, timestamp : Times, is_hidden : {"undefined", "true"},
     mentioned_user : {u}]

Batches(u) == UNION {[1..n -> WireMentions(u)] : n \in 0..MaxBatch}

\* Batches, computed once per username.
BatchesOf == [u \in Users |-> Batches(u)]

\* The history record of a step.
Op(name, arg) == [op |-> name, arg |-> arg]

\* What a step hands to the network: nothing, or one mention request.
Sent(req) == [issued |-> TRUE, url |-> req]
NothingSent == [issued |-> FALSE, url |-> [username |-> "", since |-> NoSince]]

\* fetch(url): one more request awaits its response.
Issue(pending, req) == Append(pending, req)
\* The response (or the failure) of the i-th pending request has been
\* delivered; responses arrive in any order.
Settle(pending, i) == SubSeq(pending, 1, i - 1) \o SubSeq(pending, i + 1, Len(pending))

\* What localStorage may hold when the page is opened: nothing, or what an
\* earlier session of user "alice" saved.
EarlierConfig ==
    [username |-> "alice", play_alert |-> TRUE, polling_interval |-> 10]

EarlierCache ==
    <<[id |-> 1, timestamp |-> ParseServerTimestamp(MaxTime), is_hidden |-> FALSE,
       mentioned_user |-> "alice"]>>

StoredAtStart ==
    {<<NoConfigItem, NoMentionsItem>>,
     <<Item(ConfigToJSON(EarlierConfig)), NoMentionsItem>>,
     <<Item(ConfigToJSON(EarlierConfig)), Item(Stringify(EarlierCache))>>}

\* localStorage with an entry that is no JSON text (cut short, or written
\* by something else).
StoredMalformed ==
    {<<MalformedConfigItem, NoMentionsItem>>,
     <<Item(ConfigToJSON(EarlierConfig)), MalformedMentionsItem>>}

\* ------------------------------------------------------------------ polling
\* let pollingIntervalId: undefined or null (no timer), or the handle
\* setInterval returned, remembered with the period the timer was armed
\* with (milliseconds).
NoTimer == [active |-> FALSE, period |-> 0, handle |-> 0]

\* The timers of the page: the variable pollingIntervalId and the interval
\* timers that are armed in the browser.
Timers(id, live) == [id |-> id, live |-> live]

\* setInterval(...) returns a positive handle no armed timer has.
SetInterval(live) ==
    CHOOSE h \in 1..(Cardinality(live) + 1) :
        h \notin live /\ \A k \in 1..(h - 1) : k \in live

\* A clearInterval that cancels nothing.
ClearIntervalNoop(live, id) == live

\* clearInterval(id)
ClearInterval(live, id) == live \ {id.handle}

\* stopPolling() that forgets the handle without clearing the timer.
StopPollingKeepsTimer(t) ==
    IF t.id.active THEN Timers(NoTimer, t.live) ELSE t

\* stopPolling(): clearInterval and null, when a timer is set.
StopPolling(t) ==
    IF t.id.active THEN Timers(NoTimer, ClearInterval(t.live, t.id)) ELSE t

\* startPolling(): stopPolling(), then setInterval(..., polling_interval * 1000).
StartPolling(t, config) ==
    LET stopped == StopPolling(t)
        h == SetInterval(stopped.live)
    IN Timers([active |-> TRUE, period |-> IntervalMs(config.polling_interval), handle |-> h],
              stopped.live \cup {h})

\* A restartPolling() that leaves a running timer as it is.
RestartPollingKeepsRunning(t, config) ==
    IF t.id.active THEN t ELSE StartPolling(t, config)

\* restartPolling(): stopPolling(); startPolling().
RestartPolling(t, config) == StartPolling(StopPolling(t), config)

\* No batch is being replayed.
NoReplay == [stage |-> 0, batch |-> <<>>, first |-> <<>>]

\* The mailbox monitor page is not open.
NoMailbox ==
    [op |-> "closed", textarea |-> <<>>, stored |-> [present |-> FALSE, value |-> <<>>],
     posts |-> <<>>, posted |-> FALSE, alerted |-> FALSE,
     pollingInterval |-> FALSE, fetches |-> 0]

\* --------------------------------------------------------------------- Init
\* The state when the module script has run to its end: the defaults of the
\* let declarations, and the request of the initial fetchMentions() call
\* (issued with the default configuration and the empty cache) in flight.
InitWith(stored) ==
    /\ phase = "loading"
    /\ currentUserConfig = DefaultConfig
    /\ localMentionsCache = <<>>
    /\ \E st \in stored : storedConfig = st[1] /\ storedMentions = st[2]
    /\ mentionsLog = [error |-> FALSE, items |-> <<>>]
    /\ pollingIntervalId = NoTimer
    /\ liveTimers = {}
    /\ activeChannel = "trade"
    /\ inflight = Issue(<<>>, DefaultConfig.username)
    /\ lastRequest = Sent(MentionRequest(DefaultConfig, <<>>))
    /\ deletes = <<>>
    /\ lastOp = Op("script", 0)
    /\ soundPlayed = FALSE
    /\ alertShown = FALSE
    /\ prevUsername = ""
    /\ replay = NoReplay

Init == InitWith(StoredAtStart) /\ mailbox = NoMailbox

\* ------------------------------------------------------------------ actions
\* loadConfigFromLocalStorage(): the configuration and the cache as stored.
LoadedConfig(config, item) ==
    IF item.present THEN ConfigFromJSON(item.value) ELSE config

LoadedCache(cache, item) ==
    IF item.present
    THEN [i \in 1..Len(item.value) |-> MentionFromJSON(item.value[i])]
    ELSE cache

\* The DOMContentLoaded handler: loadConfigFromLocalStorage(),
\* fetchBackendConfig() (which changes nothing), startPolling().  Nothing
\* catches what JSON.parse throws: the handler ends at the throw, with the
\* statements before it done.
DOMContentLoaded ==
    LET threwAtConfig == ParseThrows(storedConfig)
        threwAtMentions == ~threwAtConfig /\ ParseThrows(storedMentions)
        threw == threwAtConfig \/ threwAtMentions
        config == IF threwAtConfig THEN currentUserConfig
                  ELSE LoadedConfig(currentUserConfig, storedConfig)
        t == IF threw THEN Timers(pollingIntervalId, liveTimers)
             ELSE StartPolling(Timers(pollingIntervalId, liveTimers), config)
    IN /\ phase = "loading"
       /\ phase' = "ready"
       /\ currentUserConfig' = config
       /\ localMentionsCache' = IF threw THEN localMentionsCache
                                ELSE LoadedCache(localMentionsCache, storedMentions)
       /\ pollingIntervalId' = t.id
       /\ liveTimers' = t.live
       /\ lastOp' = Op(IF threw THEN "loadThrew" ELSE "load", 0)
       /\ soundPlayed' = FALSE
       /\ alertShown' = FALSE
       /\ lastRequest' = NothingSent
       /\ UNCHANGED <<storedConfig, storedMentions, mentionsLog, inflight, deletes,
                      prevUsername, replay, mailbox, activeChannel>>

\* An armed interval timer can fire (as long as the requests in flight
\* stay within the bound).
TickEnabled ==
    /\ phase = "ready"
    /\ liveTimers # {}
    /\ Len(inflight) < MaxInFlight

\* A tick of the setInterval timer: fetchMentions() runs up to its
\* await fetch(url).  (fetchChatLog() touches none of this state.)
Tick ==
    /\ TickEnabled
    /\ lastRequest' = Sent(MentionRequest(currentUserConfig, localMentionsCache))
    /\ inflight' = Issue(inflight, lastRequest'.url.username)
    /\ lastOp' = Op("tick", 0)
    /\ soundPlayed' = FALSE
    /\ alertShown' = FALSE
    /\ UNCHANGED <<phase, currentUserConfig, localMentionsCache, storedConfig,
                   storedMentions, mentionsLog, pollingIntervalId, liveTimers, deletes, prevUsername, replay, mailbox,
                   activeChannel>>

\* A submit handler that fetches for the new username without emptying the
\* cache first.
SaveConfigKeepsCache(username, intervalText, playAlert) ==
    LET oldUsername == currentUserConfig.username
        newConfig == [username |-> username,
                      play_alert |-> playAlert,
                      polling_interval |-> ParseInt(intervalText)]
    IN /\ phase = "ready"
       /\ currentUserConfig' = newConfig
       /\ storedConfig' = Item(ConfigToJSON(newConfig))
       /\ IF oldUsername # username
          THEN /\ Len(inflight) < MaxInFlight
               /\ lastRequest' = Sent(MentionRequest(newConfig, localMentionsCache))
               /\ inflight' = Issue(inflight, lastRequest'.url.username)
               /\ prevUsername' = oldUsername
               /\ UNCHANGED <<localMentionsCache, storedMentions>>
          ELSE /\ lastRequest' = NothingSent
               /\ UNCHANGED <<localMentionsCache, storedMentions, inflight, prevUsername>>
       /\ LET t == RestartPolling(Timers(pollingIntervalId, liveTimers), newConfig)
          IN pollingIntervalId' = t.id /\ liveTimers' = t.live
       /\ lastOp' = Op("save", 0)
       /\ soundPlayed' = FALSE
       /\ alertShown' = FALSE
       /\ UNCHANGED <<phase, mentionsLog, deletes, replay, mailbox, activeChannel>>

\* The submit handler of CONFIG_FORM with the form's three fields.
SaveConfig(username, intervalText, playAlert) ==
    LET oldUsername == currentUserConfig.username
        newConfig == [username |-> username,
                      play_alert |-> playAlert,
                      polling_interval |-> ParseInt(intervalText)]
    IN /\ phase = "ready"
       /\ currentUserConfig' = newConfig
       /\ storedConfig' = Item(ConfigToJSON(newConfig))
       /\ IF oldUsername # username
          THEN /\ Len(inflight) < MaxInFlight
               /\ localMentionsCache' = <<>>
               /\ storedMentions' = NoMentionsItem
               /\ lastRequest' = Sent(MentionRequest(newConfig, localMentionsCache'))
               /\ inflight' = Issue(inflight, lastRequest'.url.username)
               /\ prevUsername' = oldUsername
          ELSE /\ lastRequest' = NothingSent
               /\ UNCHANGED <<localMentionsCache, storedMentions, inflight, prevUsername>>
       /\ LET t == RestartPolling(Timers(pollingIntervalId, liveTimers), newConfig)
          IN pollingIntervalId' = t.id /\ liveTimers' = t.live
       /\ lastOp' = Op("save", 0)
       /\ soundPlayed' = FALSE
       /\ alertShown' = FALSE
       /\ UNCHANGED <<phase, mentionsLog, deletes, replay, mailbox, activeChannel>>

\* The click handler of CHANNEL_TABS on the tab of a channel: the
\* advanced-search tab stops the polling; the tab of another channel than
\* the active one makes it the active one and restarts the polling.
\* (fetchChatLog() touches none of this state.)
TabClick(channel) ==
    LET now == Timers(pollingIntervalId, liveTimers)
        t == IF channel = "advanced-search" THEN StopPolling(now)
             ELSE IF activeChannel # channel
                  THEN RestartPolling(now, currentUserConfig)
                  ELSE now
    IN /\ phase = "ready"
       /\ activeChannel' = IF channel # "advanced-search" /\ activeChannel # channel
                           THEN channel ELSE activeChannel
       /\ pollingIntervalId' = t.id
       /\ liveTimers' = t.live
       /\ lastOp' = Op("tab", IF channel = "advanced-search" THEN 1 ELSE 0)
       /\ soundPlayed' = FALSE
       /\ alertShown' = FALSE
       /\ lastRequest' = NothingSent
       /\ UNCHANGED <<phase, currentUserConfig, localMentionsCache, storedConfig,
                      storedMentions, mentionsLog, inflight, deletes, prevUsername,
                      replay, mailbox>>

\* A fetchMentions() that drops the response when the polling has stopped.
ReceiveMentionsWhilePolling(i, newMentions) ==
    /\ phase = "ready"
    /\ i \in 1..Len(inflight)
    /\ inflight' = Settle(inflight, i)
    /\ localMentionsCache' = IF liveTimers = {} THEN localMentionsCache
                             ELSE MergedCache(localMentionsCache, newMentions)
    /\ storedMentions' = IF liveTimers = {} THEN storedMentions
                         ELSE Item(Stringify(localMentionsCache'))
    /\ mentionsLog' = DisplayMentions(localMentionsCache')
    /\ soundPlayed' = PlaySound(newMentions, currentUserConfig)
    /\ lastOp' = Op("merge", Len(newMentions))
    /\ alertShown' = FALSE
    /\ lastRequest' = NothingSent
    /\ UNCHANGED <<phase, currentUserConfig, storedConfig, pollingIntervalId, liveTimers, deletes,
                   prevUsername, activeChannel>>

\* fetchMentions() from the resumption of await fetch(url) to its end, the
\* response being the list newMentions.
ReceiveMentions(i, newMentions) ==
    /\ phase = "ready"
    /\ i \in 1..Len(inflight)
    /\ inflight' = Settle(inflight, i)
    /\ localMentionsCache' = MergedCache(localMentionsCache, newMentions)
    /\ storedMentions' = Item(Stringify(localMentionsCache'))
    /\ mentionsLog' = DisplayMentions(localMentionsCache')
    /\ soundPlayed' = PlaySound(newMentions, currentUserConfig)
    /\ lastOp' = Op("merge", Len(newMentions))
    /\ alertShown' = FALSE
    /\ lastRequest' = NothingSent
    /\ UNCHANGED <<phase, currentUserConfig, storedConfig, pollingIntervalId, liveTimers, deletes,
                   prevUsername, activeChannel>>

\* The response of a request of the page arrives.
MentionsReceived(i, newMentions) ==
    /\ ReceiveMentions(i, newMentions)
    /\ UNCHANGED <<replay, mailbox>>

\* A catch block that resets the cache it could not refresh.
FetchMentionsFailedResets(i) ==
    /\ phase = "ready"
    /\ i \in 1..Len(inflight)
    /\ inflight' = Settle(inflight, i)
    /\ localMentionsCache' = <<>>
    /\ mentionsLog' = ErrorLog
    /\ lastOp' = Op("fetchFail", 0)
    /\ soundPlayed' = FALSE
    /\ alertShown' = FALSE
    /\ lastRequest' = NothingSent
    /\ UNCHANGED <<phase, currentUserConfig, storedConfig,
                   storedMentions, pollingIntervalId, liveTimers, deletes, prevUsername, replay, mailbox,
                   activeChannel>>

\* A catch block that gives the polling up.
FetchMentionsFailedStops(i) ==
    LET t == StopPolling(Timers(pollingIntervalId, liveTimers))
    IN /\ phase = "ready"
       /\ i \in 1..Len(inflight)
       /\ inflight' = Settle(inflight, i)
       /\ mentionsLog' = ErrorLog
       /\ pollingIntervalId' = t.id
       /\ liveTimers' = t.live
       /\ lastOp' = Op("fetchFail", 0)
       /\ soundPlayed' = FALSE
       /\ alertShown' = FALSE
       /\ lastRequest' = NothingSent
       /\ UNCHANGED <<phase, currentUserConfig, localMentionsCache, storedConfig,
                      storedMentions, deletes, prevUsername, replay, mailbox, activeChannel>>

\* fetchMentions() when fetch(url) rejects, response.json() rejects, or the
\* body is no array (newMentions.forEach is not a function): the catch block.
FetchMentionsFailed(i) ==
    /\ phase = "ready"
    /\ i \in 1..Len(inflight)
    /\ inflight' = Settle(inflight, i)
    /\ mentionsLog' = ErrorLog
    /\ lastOp' = Op("fetchFail", 0)
    /\ soundPlayed' = FALSE
    /\ alertShown' = FALSE
    /\ lastRequest' = NothingSent
    /\ UNCHANGED <<phase, currentUserConfig, localMentionsCache, storedConfig,
                   storedMentions, pollingIntervalId, liveTimers, deletes, prevUsername, replay, mailbox,
                   activeChannel>>

\* The ids of the delete buttons MENTIONS_LOG_ELEMENT shows.
Rendered(log) == {log.items[i] : i \in 1..Len(log.items)}

\* A hide that hides every cached mention.
HideAll(cache, mentionIndex) ==
    [i \in 1..Len(cache) |-> [cache[i] EXCEPT !.is_hidden = TRUE]]

\* localMentionsCache[mentionIndex].is_hidden = true
Hide(cache, mentionIndex) == [cache EXCEPT ![mentionIndex].is_hidden = TRUE]

\* A click handler that hides and persists first and sends the DELETE after.
ClickHideLocalFirst(mentionId) ==
    LET mentionIndex == FindIndex(localMentionsCache, mentionId)
    IN /\ phase = "ready"
       /\ mentionId \in Rendered(mentionsLog)
       /\ Len(deletes) < MaxDeletes
       /\ IF mentionIndex # 0
          THEN /\ localMentionsCache' = Hide(localMentionsCache, mentionIndex)
               /\ storedMentions' = Item(Stringify(localMentionsCache'))
               /\ mentionsLog' = DisplayMentions(localMentionsCache')
          ELSE UNCHANGED <<localMentionsCache, storedMentions, mentionsLog>>
       /\ deletes' = Issue(deletes, mentionId)
       /\ lastOp' = Op("click", mentionId)
       /\ soundPlayed' = FALSE
       /\ alertShown' = FALSE
       /\ lastRequest' = NothingSent
       /\ UNCHANGED <<phase, currentUserConfig, storedConfig, pollingIntervalId, liveTimers,
                      inflight, prevUsername, replay, mailbox,
                   activeChannel>>

\* The click handler of MENTIONS_LOG_ELEMENT on the button of mention id,
\* up to its await fetch(..., { method: 'DELETE' }).
ClickHide(mentionId) ==
    /\ phase = "ready"
    /\ mentionId \in Rendered(mentionsLog)
    /\ Len(deletes) < MaxDeletes
    /\ deletes' = Issue(deletes, mentionId)
    /\ lastOp' = Op("click", mentionId)
    /\ soundPlayed' = FALSE
    /\ alertShown' = FALSE
    /\ lastRequest' = NothingSent
    /\ UNCHANGED <<phase, currentUserConfig, localMentionsCache, storedConfig,
                   storedMentions, mentionsLog, pollingIntervalId, liveTimers, inflight, prevUsername, replay, mailbox,
                   activeChannel>>

\* A success branch that persists and redraws whether or not it found the
\* mention.
HideConfirmedPersistsAlways(i) ==
    LET mentionId == deletes[i]
        mentionIndex == FindIndex(localMentionsCache, mentionId)
    IN /\ i \in 1..Len(deletes)
       /\ deletes' = Settle(deletes, i)
       /\ localMentionsCache' = IF mentionIndex # 0
                                THEN Hide(localMentionsCache, mentionIndex)
                                ELSE localMentionsCache
       /\ storedMentions' = Item(Stringify(localMentionsCache'))
       /\ mentionsLog' = DisplayMentions(localMentionsCache')
       /\ lastOp' = Op("hideOk", mentionId)
       /\ soundPlayed' = FALSE
       /\ alertShown' = FALSE
       /\ lastRequest' = NothingSent
       /\ UNCHANGED <<phase, currentUserConfig, storedConfig, pollingIntervalId,
                      liveTimers, inflight, prevUsername, replay, mailbox, activeChannel>>

\* A success branch that hides the mention in memory alone.
HideConfirmedInMemory(i) ==
    LET mentionId == deletes[i]
        mentionIndex == FindIndex(localMentionsCache, mentionId)
    IN /\ i \in 1..Len(deletes)
       /\ deletes' = Settle(deletes, i)
       /\ IF mentionIndex # 0
          THEN /\ localMentionsCache' = Hide(localMentionsCache, mentionIndex)
               /\ mentionsLog' = DisplayMentions(localMentionsCache')
          ELSE UNCHANGED <<localMentionsCache, mentionsLog>>
       /\ lastOp' = Op("hideOk", mentionId)
       /\ soundPlayed' = FALSE
       /\ alertShown' = FALSE
       /\ lastRequest' = NothingSent
       /\ UNCHANGED <<phase, currentUserConfig, storedConfig, storedMentions,
                      pollingIntervalId, liveTimers, inflight, prevUsername, replay,
                      mailbox, activeChannel>>

\* The click handler from the resumption of the DELETE, response.ok true.
HideConfirmed(i) ==
    LET mentionId == deletes[i]
        mentionIndex == FindIndex(localMentionsCache, mentionId)
    IN /\ i \in 1..Len(deletes)
       /\ deletes' = Settle(deletes, i)
       /\ IF mentionIndex # 0
          THEN /\ localMentionsCache' = Hide(localMentionsCache, mentionIndex)
               /\ storedMentions' = Item(Stringify(localMentionsCache'))
               /\ mentionsLog' = DisplayMentions(localMentionsCache')
          ELSE UNCHANGED <<localMentionsCache, storedMentions, mentionsLog>>
       /\ lastOp' = Op("hideOk", mentionId)
       /\ soundPlayed' = FALSE
       /\ alertShown' = FALSE
       /\ lastRequest' = NothingSent
       /\ UNCHANGED <<phase, currentUserConfig, storedConfig, pollingIntervalId, liveTimers,
                      inflight, prevUsername, replay, mailbox,
                   activeChannel>>

\* A failure branch that hides the mention all the same.
HideFailedHidesAnyway(i) ==
    LET mentionId == deletes[i]
        mentionIndex == FindIndex(localMentionsCache, mentionId)
    IN /\ i \in 1..Len(deletes)
       /\ deletes' = Settle(deletes, i)
       /\ IF mentionIndex # 0
          THEN /\ localMentionsCache' = Hide(localMentionsCache, mentionIndex)
               /\ storedMentions' = Item(Stringify(localMentionsCache'))
               /\ mentionsLog' = DisplayMentions(localMentionsCache')
          ELSE UNCHANGED <<localMentionsCache, storedMentions, mentionsLog>>
       /\ lastOp' = Op("hideFail", mentionId)
       /\ soundPlayed' = FALSE
       /\ alertShown' = TRUE
       /\ lastRequest' = NothingSent
       /\ UNCHANGED <<phase, currentUserConfig, storedConfig, pollingIntervalId, liveTimers,
                      inflight, prevUsername, replay, mailbox,
                   activeChannel>>

\* The click handler when the DELETE rejects or response.ok is false:
\* alert('Failed to hide mention...') and nothing else.
HideFailed(i) ==
    /\ i \in 1..Len(deletes)
    /\ deletes' = Settle(deletes, i)
    /\ lastOp' = Op("hideFail", deletes[i])
    /\ soundPlayed' = FALSE
    /\ alertShown' = TRUE
    /\ lastRequest' = NothingSent
    /\ UNCHANGED <<phase, currentUserConfig, localMentionsCache, storedConfig,
                   storedMentions, mentionsLog, pollingIntervalId, liveTimers, inflight, prevUsername, replay, mailbox,
                   activeChannel>>

Next ==
    \/ DOMContentLoaded
    \/ Tick
    \/ \E u \in Users, t \in IntervalInputs, a \in BOOLEAN : SaveConfig(u, t, a)
    \/ \E i \in 1..Len(inflight) :
          \E b \in BatchesOf[inflight[i]] : MentionsReceived(i, b)
    \/ \E i \in 1..Len(inflight) : FetchMentionsFailed(i)
    \/ \E id \in Ids : ClickHide(id)
    \/ \E i \in 1..Len(deletes) : HideConfirmed(i)
    \/ \E i \in 1..Len(deletes) : HideFailed(i)

Spec == Init /\ [][Next]_vars

\* ----------------------------------------------------------------- the page
\* The page with its tabs, with the username field left empty, and opened
\* on a localStorage that holds a malformed entry; the server answers with
\* lists of at most MaxPageBatch records.  The hide handlers, which touch
\* neither the timers nor the channel nor the configuration, are left out.
InitPage == InitWith(StoredAtStart \cup StoredMalformed) /\ mailbox = NoMailbox

PageBatchesOf ==
    [u \in FormUsers |-> {b \in Batches(u) : Len(b) <= MaxPageBatch}]

NextPage ==
    \/ DOMContentLoaded
    \/ Tick
    \/ \E u \in FormUsers, t \in IntervalInputs, a \in BOOLEAN : SaveConfig(u, t, a)
    \/ \E c \in Channels : TabClick(c)
    \/ \E i \in 1..Len(inflight) :
          \E b \in PageBatchesOf[inflight[i]] : MentionsReceived(i, b)
    \/ \E i \in 1..Len(inflight) : FetchMentionsFailed(i)

SpecPage == InitPage /\ [][NextPage]_vars

\* ------------------------------------------------------ the mailbox monitor
\* The mailbox monitor page (src/frontend/mailbox.js).  A text is the
\* sequence of its characters, the textarea the sequence of its lines
\* (usernamesTextarea.value.split('\n'), which has one empty line for the
\* empty text).
MaxLines == 6
MaxPosts == 1
MaxFetches == 2
MailboxLimit == 5

\* Lines the user types: a name as pasted from the chat, a blank line (a
\* plain name comes into the textarea from the stored list).
RawLines == {<<" ", "@", "b", ":">>, <<" ">>}

\* String.prototype.trim on the texts above.
RECURSIVE TrimStart(_)
TrimStart(text) ==
    IF text # <<>> /\ Head(text) = " " THEN TrimStart(Tail(text)) ELSE text

RECURSIVE TrimEnd(_)
TrimEnd(text) ==
    IF text # <<>> /\ text[Len(text)] = " "
    THEN TrimEnd(SubSeq(text, 1, Len(text) - 1))
    ELSE text

Trim(text) == TrimEnd(TrimStart(text))

\* sanitizeUsername(username)
SanitizeUsername(username) ==
    IF username = <<>> THEN <<>>
    ELSE LET cleaned == Trim(username)
             noAt == IF cleaned # <<>> /\ Head(cleaned) = "@"
                     THEN Tail(cleaned) ELSE cleaned
         IN IF noAt # <<>> /\ noAt[Len(noAt)] = ":"
            THEN SubSeq(noAt, 1, Len(noAt) - 1)
            ELSE noAt

\* rawUsernames.map(u => sanitizeUsername(u)).filter(u => u)
SanitizedUsernames(rawUsernames) ==
    SelectSeq([i \in 1..Len(rawUsernames) |-> SanitizeUsername(rawUsernames[i])],
              LAMBDA u : u # <<>>)

\* usernames.join('\n'), as the lines of the textarea.
JoinLines(usernames) == IF usernames = <<>> THEN << <<>> >> ELSE usernames

\* The entry LOCAL_STORAGE_KEY of localStorage: absent, or a list of names.
NoUsersItem == [present |-> FALSE, value |-> <<>>]
UsersItem(usernames) == [present |-> TRUE, value |-> usernames]

\* loadUsersFromLocalStorage()
LoadUsersFromLocalStorage(item) == IF item.present THEN item.value ELSE <<>>

\* loadMonitoredUsers(): the stored list into the textarea, or else the list
\* the backend holds for the session (none when nobody is logged in); then
\* fetchMailboxStatuses(), whose request is in flight.
LoadMonitoredUsers(item, backendUsernames) ==
    LET storedUsers == LoadUsersFromLocalStorage(item)
    IN IF Len(storedUsers) > 0
       THEN [op |-> "page", textarea |-> JoinLines(storedUsers), stored |-> item,
             posts |-> <<>>, posted |-> FALSE, alerted |-> FALSE,
             pollingInterval |-> FALSE, fetches |-> 1]
       ELSE IF Len(backendUsernames) > 0
       THEN [op |-> "page", textarea |-> JoinLines(backendUsernames),
             stored |-> UsersItem(backendUsernames),
             posts |-> <<>>, posted |-> FALSE, alerted |-> FALSE,
             pollingInterval |-> FALSE, fetches |-> 1]
       ELSE [op |-> "page", textarea |-> JoinLines(<<>>), stored |-> item,
             posts |-> <<>>, posted |-> FALSE, alerted |-> FALSE,
             pollingInterval |-> FALSE, fetches |-> 1]

StoredUsersAtStart == {NoUsersItem, UsersItem(<<>>), UsersItem(<< <<"a">> >>)}
BackendUsernames == {<<>>, << <<"b">> >>}

\* The mailbox page with loadMonitoredUsers() done and the interval timer
\* of fetchMailboxStatuses armed; the main page stays as the module script
\* left it.
InitMailbox ==
    /\ InitWith({<<NoConfigItem, NoMentionsItem>>})
    /\ \E item \in StoredUsersAtStart, b \in BackendUsernames :
          mailbox = [LoadMonitoredUsers(item, b) EXCEPT !.pollingInterval = TRUE]

mainVars == <<phase, currentUserConfig, localMentionsCache, storedConfig, storedMentions,
              mentionsLog, pollingIntervalId, liveTimers, activeChannel, inflight,
              lastRequest, deletes, lastOp, soundPlayed, alertShown, prevUsername,
              replay>>

\* The user types one more line into the textarea.
TypeLine(raw) ==
    /\ mailbox.op # "closed"
    /\ Len(mailbox.textarea) < MaxLines \/ mailbox.textarea = << <<>> >>
    /\ mailbox' = [mailbox EXCEPT
                     !.op = "type",
                     !.textarea = IF mailbox.textarea = << <<>> >> THEN <<raw>>
                                  ELSE Append(mailbox.textarea, raw),
                     !.posted = FALSE,
                     !.alerted = FALSE]
    /\ UNCHANGED mainVars

\* The user empties the textarea.
ClearTextarea ==
    /\ mailbox.op # "closed"
    /\ mailbox' = [mailbox EXCEPT !.op = "type", !.textarea = JoinLines(<<>>),
                                  !.posted = FALSE, !.alerted = FALSE]
    /\ UNCHANGED mainVars

\* A click handler that takes a list of any length.
UpdateListNoLimit ==
    LET sanitizedUsernames == SanitizedUsernames(mailbox.textarea)
    IN /\ mailbox.op # "closed"
       /\ Len(mailbox.posts) < MaxPosts
       /\ mailbox' = [op |-> "click",
                      textarea |-> JoinLines(sanitizedUsernames),
                      stored |-> UsersItem(sanitizedUsernames),
                      posts |-> Append(mailbox.posts, sanitizedUsernames),
                      posted |-> TRUE,
                      alerted |-> FALSE,
                      pollingInterval |-> mailbox.pollingInterval,
                      fetches |-> mailbox.fetches]
       /\ UNCHANGED mainVars

\* The click handler of updateListBtn, up to its first await: a list of more
\* than 5 names is refused with an alert; otherwise the textarea is rewritten,
\* the list stored and POSTed to /api/mailbox/preferences.
UpdateListClick ==
    LET sanitizedUsernames == SanitizedUsernames(mailbox.textarea)
    IN /\ mailbox.op # "closed"
       /\ Len(sanitizedUsernames) > MailboxLimit \/ Len(mailbox.posts) < MaxPosts
       /\ IF Len(sanitizedUsernames) > MailboxLimit
          THEN mailbox' = [mailbox EXCEPT !.op = "click", !.posted = FALSE,
                                         !.alerted = TRUE]
          ELSE mailbox' = [op |-> "click",
                           textarea |-> JoinLines(sanitizedUsernames),
                           stored |-> UsersItem(sanitizedUsernames),
                           posts |-> Append(mailbox.posts, sanitizedUsernames),
                           posted |-> TRUE,
                           alerted |-> FALSE,
                           pollingInterval |-> mailbox.pollingInterval,
                           fetches |-> mailbox.fetches]
       /\ UNCHANGED mainVars

\* A success branch that arms the interval timer again.
PreferencesSavedRestarts(i) ==
    /\ mailbox.fetches < MaxFetches
    /\ mailbox' = [mailbox EXCEPT !.op = "postOk", !.posts = Settle(mailbox.posts, i),
                                  !.posted = FALSE, !.alerted = FALSE,
                                  !.pollingInterval = TRUE,
                                  !.fetches = mailbox.fetches + 1]
    /\ UNCHANGED mainVars

\* The click handler from the resumption of the POST with response.ok true,
\* up to the await in fetchMailboxStatuses(): one status request is sent.
PreferencesSaved(i) ==
    /\ mailbox.fetches < MaxFetches
    /\ mailbox' = [mailbox EXCEPT !.op = "postOk", !.posts = Settle(mailbox.posts, i),
                                  !.posted = FALSE, !.alerted = FALSE,
                                  !.fetches = mailbox.fetches + 1]
    /\ UNCHANGED mainVars

\* The click handler when the POST fails or response.ok is false: the catch
\* block alerts.
PreferencesFailed(i) ==
    /\ mailbox' = [mailbox EXCEPT !.op = "postFail", !.posts = Settle(mailbox.posts, i),
                                  !.posted = FALSE, !.alerted = TRUE]
    /\ UNCHANGED mainVars

\* The interval timer of the page fires: fetchMailboxStatuses() up to its
\* await.
StatusTick ==
    /\ mailbox.pollingInterval
    /\ mailbox.fetches < MaxFetches
    /\ mailbox' = [mailbox EXCEPT !.op = "statusTick", !.posted = FALSE,
                                  !.alerted = FALSE,
                                  !.fetches = mailbox.fetches + 1]
    /\ UNCHANGED mainVars

\* fetchMailboxStatuses() resumed with the statuses: displayResults().
StatusFetched ==
    /\ mailbox.fetches > 0
    /\ mailbox' = [mailbox EXCEPT !.op = "statusOk", !.posted = FALSE,
                                  !.alerted = FALSE,
                                  !.fetches = mailbox.fetches - 1]
    /\ UNCHANGED mainVars

\* fetchMailboxStatuses() when the fetch fails or response.ok is false: the
\* catch block clears the interval timer.
StatusFailed ==
    /\ mailbox.fetches > 0
    /\ mailbox' = [mailbox EXCEPT !.op = "statusFail", !.posted = FALSE,
                                  !.alerted = FALSE,
                                  !.pollingInterval = FALSE,
                                  !.fetches = mailbox.fetches - 1]
    /\ UNCHANGED mainVars

NextMailbox ==
    \/ \E raw \in RawLines : TypeLine(raw)
    \/ ClearTextarea
    \/ UpdateListClick
    \/ \E i \in 1..Len(mailbox.posts) : PreferencesSaved(i)
    \/ \E i \in 1..Len(mailbox.posts) : PreferencesFailed(i)
    \/ StatusTick
    \/ StatusFetched
    \/ StatusFailed

SpecMailbox == InitMailbox /\ [][NextMailbox]_vars

\* -------------------------------------------------------------- the session
\* The page over several visits: the form submitted with any text in its
\* interval field, the page reloaded, and opened on a cache that an earlier
\* revision of the page stored (records without is_hidden beside a record
\* hidden since).
OldSchemaCache ==
    <<[id |-> 2, timestamp |-> ToISOString(ParseServerTimestamp(MaxTime)),
       is_hidden |-> "undefined", mentioned_user |-> "alice"],
      [id |-> 1, timestamp |-> ToISOString(ParseServerTimestamp(1)),
       is_hidden |-> "true", mentioned_user |-> "alice"]>>

StoredOldSchema == {<<Item(ConfigToJSON(EarlierConfig)), Item(OldSchemaCache)>>}

InitSession == InitWith(StoredAtStart \cup StoredOldSchema) /\ mailbox = NoMailbox

\* The user reloads the page: the document goes with its timers and with the
\* callbacks of its requests, the module script runs again; localStorage
\* stays.
Reload ==
    /\ phase = "ready"
    /\ phase' = "loading"
    /\ currentUserConfig' = DefaultConfig
    /\ localMentionsCache' = <<>>
    /\ mentionsLog' = [error |-> FALSE, items |-> <<>>]
    /\ pollingIntervalId' = NoTimer
    /\ liveTimers' = {}
    /\ activeChannel' = "trade"
    /\ inflight' = Issue(<<>>, DefaultConfig.username)
    /\ lastRequest' = Sent(MentionRequest(DefaultConfig, <<>>))
    /\ deletes' = <<>>
    /\ lastOp' = Op("script", 0)
    /\ soundPlayed' = FALSE
    /\ alertShown' = FALSE
    /\ prevUsername' = ""
    /\ UNCHANGED <<storedConfig, storedMentions, replay, mailbox>>

NextSession ==
    \/ DOMContentLoaded
    \/ Tick
    \/ \E u \in Users, t \in FormIntervals, a \in BOOLEAN : SaveConfig(u, t, a)
    \/ \E i \in 1..Len(inflight) :
          \E b \in PageBatchesOf[inflight[i]] : MentionsReceived(i, b)
    \/ \E id \in Ids : ClickHide(id)
    \/ \E i \in 1..Len(deletes) : HideConfirmed(i)
    \/ \E i \in 1..Len(deletes) : HideFailed(i)
    \/ Reload

SpecSession == InitSession /\ [][NextSession]_vars

\* ------------------------------------------------------------------- replay
\* The page with two overlapping syncs in flight that the server answers with
\* one and the same batch: every cache the merge keeps (sorted, one record per
\* id) against every batch.
NoRepeatedId(seq) ==
    \A i, j \in 1..Len(seq) : seq[i].id = seq[j].id => i = j

SortedDesc(seq) ==
    \A i, j \in 1..Len(seq) : i < j => seq[i].timestamp >= seq[j].timestamp

CacheRecords(u) ==
    [id : Ids, timestamp : {ParseServerTimestamp(t) : t \in Times},
     is_hidden : BOOLEAN, mentioned_user : {u}]

StartCaches(u) ==
    {c \in UNION {[1..n -> CacheRecords(u)] : n \in 0..MaxId} :
        NoRepeatedId(c) /\ SortedDesc(c)}

InitReplay ==
    /\ phase = "ready"
    /\ currentUserConfig \in {DefaultConfig, [DefaultConfig EXCEPT !.play_alert = TRUE]}
    /\ localMentionsCache \in StartCaches(DefaultConfig.username)
    /\ storedConfig = Item(ConfigToJSON(currentUserConfig))
    /\ storedMentions = Item(Stringify(localMentionsCache))
    /\ mentionsLog = DisplayMentions(localMentionsCache)
    /\ pollingIntervalId = StartPolling(Timers(NoTimer, {}), currentUserConfig).id
    /\ liveTimers = StartPolling(Timers(NoTimer, {}), currentUserConfig).live
    /\ activeChannel = "trade"
    /\ inflight = <<DefaultConfig.username, DefaultConfig.username>>
    /\ lastRequest = Sent(MentionRequest(currentUserConfig, localMentionsCache))
    /\ deletes = <<>>
    /\ lastOp = Op("tick", 0)
    /\ soundPlayed = FALSE
    /\ alertShown = FALSE
    /\ prevUsername = ""
    /\ \E b \in BatchesOf[DefaultConfig.username] :
          replay = [stage |-> 0, batch |-> b, first |-> <<>>]
    /\ mailbox = NoMailbox

\* The response to the next sync in flight arrives and carries the batch.
ReplaySync ==
    /\ replay.stage < 2
    /\ ReceiveMentions(1, replay.batch)
    /\ replay' = [stage |-> replay.stage + 1,
                  batch |-> replay.batch,
                  first |-> IF replay.stage = 0 THEN localMentionsCache'
                            ELSE replay.first]
    /\ UNCHANGED mailbox

NextReplay == ReplaySync

SpecReplay == InitReplay /\ [][NextReplay]_vars

\* ----------------------------------------------------------- arrival order
\* The page with two overlapping syncs in flight, answered with two batches,
\* while the user may stop the polling (the advanced-search tab): the cache
\* after both merges against the cache the other arrival order gives.
SwapCaches(u) == {c \in StartCaches(u) : Len(c) <= 1}

InitSwap ==
    /\ phase = "ready"
    /\ currentUserConfig = DefaultConfig
    /\ localMentionsCache \in SwapCaches(DefaultConfig.username)
    /\ storedConfig = Item(ConfigToJSON(currentUserConfig))
    /\ storedMentions = Item(Stringify(localMentionsCache))
    /\ mentionsLog = DisplayMentions(localMentionsCache)
    /\ pollingIntervalId = StartPolling(Timers(NoTimer, {}), currentUserConfig).id
    /\ liveTimers = StartPolling(Timers(NoTimer, {}), currentUserConfig).live
    /\ activeChannel = "trade"
    /\ inflight = <<DefaultConfig.username, DefaultConfig.username>>
    /\ lastRequest = Sent(MentionRequest(currentUserConfig, localMentionsCache))
    /\ deletes = <<>>
    /\ lastOp = Op("tick", 0)
    /\ soundPlayed = FALSE
    /\ alertShown = FALSE
    /\ prevUsername = ""
    /\ \E b, c \in BatchesOf[DefaultConfig.username] :
          replay = [stage |-> 0, batch |-> b, second |-> c,
                    first |-> localMentionsCache]
    /\ mailbox = NoMailbox

\* The response to the next sync in flight arrives: the first carries
\* replay.batch, the second replay.second.
SwapSync ==
    /\ replay.stage < 2
    /\ ReceiveMentions(1, IF replay.stage = 0 THEN replay.batch ELSE replay.second)
    /\ replay' = [replay EXCEPT !.stage = replay.stage + 1]
    /\ UNCHANGED mailbox

\* The user opens the advanced search, which stops the polling.
StopClick == liveTimers # {} /\ TabClick("advanced-search")

NextSwap ==
    \/ SwapSync
    \/ StopClick

SpecSwap == InitSwap /\ [][NextSwap]_vars

\* ------------------------------------------------------------- round trip
\* The page after a sync, with any cache the merge keeps, stored as the
\* merge stores it; the user reloads the page, and the load reads the cache
\* back.  replay.first keeps the cache as it was before the reload.
InitRoundTrip ==
    /\ phase = "ready"
    /\ currentUserConfig \in
          {[DefaultConfig EXCEPT !.username = u, !.play_alert = a] :
              u \in Users, a \in BOOLEAN}
    /\ localMentionsCache \in StartCaches(currentUserConfig.username)
    /\ storedConfig = Item(ConfigToJSON(currentUserConfig))
    /\ storedMentions = Item(Stringify(localMentionsCache))
    /\ mentionsLog = DisplayMentions(localMentionsCache)
    /\ pollingIntervalId = StartPolling(Timers(NoTimer, {}), currentUserConfig).id
    /\ liveTimers = StartPolling(Timers(NoTimer, {}), currentUserConfig).live
    /\ activeChannel = "trade"
    /\ inflight = <<>>
    /\ lastRequest = NothingSent
    /\ deletes = <<>>
    /\ lastOp = Op("merge", 0)
    /\ soundPlayed = FALSE
    /\ alertShown = FALSE
    /\ prevUsername = ""
    /\ replay = [NoReplay EXCEPT !.first = localMentionsCache]
    /\ mailbox = NoMailbox

NextRoundTrip ==
    \/ Reload
    \/ DOMContentLoaded

SpecRoundTrip == InitRoundTrip /\ [][NextRoundTrip]_vars

\* ------------------------------------------------------- mark all as read
\* markAllAsRead() of the later revision (src/unnamed/part_001), whose
\* handleMentionsClick is the click handler modelled above: button.click()
\* runs the handler of each button of the list, in the order of the list, up
\* to its await, so one DELETE per button is in flight when it returns.
\* A markAllAsRead() that clicks the first button alone.
MarkFirstAsRead ==
    /\ phase = "ready"
    /\ deletes' = IF mentionsLog.items = <<>> THEN deletes
                  ELSE Issue(deletes, Head(mentionsLog.items))
    /\ lastOp' = Op("markAll", Len(mentionsLog.items))
    /\ soundPlayed' = FALSE
    /\ alertShown' = FALSE
    /\ lastRequest' = NothingSent
    /\ UNCHANGED <<phase, currentUserConfig, localMentionsCache, storedConfig,
                   storedMentions, mentionsLog, pollingIntervalId, liveTimers,
                   inflight, prevUsername, activeChannel>>

\* markAllAsRead()
MarkAllAsRead ==
    /\ phase = "ready"
    /\ deletes' = deletes \o mentionsLog.items
    /\ lastOp' = Op("markAll", Len(mentionsLog.items))
    /\ soundPlayed' = FALSE
    /\ alertShown' = FALSE
    /\ lastRequest' = NothingSent
    /\ UNCHANGED <<phase, currentUserConfig, localMentionsCache, storedConfig,
                   storedMentions, mentionsLog, pollingIntervalId, liveTimers,
                   inflight, prevUsername, activeChannel>>

\* The page with any cache the merge keeps, its list drawn by the last sync
\* or not drawn yet (the load draws nothing); the user clicks the button
\* once, every DELETE succeeds, and no response of a sync arrives (a sync
\* may start, and may fail).  replay keeps the buttons and the cache of the
\* moment of the click.
InitMarkAll ==
    /\ phase = "ready"
    /\ currentUserConfig = DefaultConfig
    /\ localMentionsCache \in StartCaches(currentUserConfig.username)
    /\ storedConfig = Item(ConfigToJSON(currentUserConfig))
    /\ storedMentions = Item(Stringify(localMentionsCache))
    /\ mentionsLog \in {DisplayMentions(localMentionsCache), DisplayMentions(<<>>)}
    /\ pollingIntervalId = StartPolling(Timers(NoTimer, {}), currentUserConfig).id
    /\ liveTimers = StartPolling(Timers(NoTimer, {}), currentUserConfig).live
    /\ activeChannel = "trade"
    /\ inflight = <<>>
    /\ lastRequest = NothingSent
    /\ deletes = <<>>
    /\ lastOp = Op("load", 0)
    /\ soundPlayed = FALSE
    /\ alertShown = FALSE
    /\ prevUsername = ""
    /\ replay = NoReplay
    /\ mailbox = NoMailbox

MarkAllClicked ==
    /\ replay.stage = 0
    /\ MarkAllAsRead
    /\ replay' = [stage |-> 1, batch |-> mentionsLog.items,
                  first |-> localMentionsCache]
    /\ UNCHANGED mailbox

NextMarkAll ==
    \/ MarkAllClicked
    \/ \E i \in 1..Len(deletes) : HideConfirmed(i)
    \/ Tick
    \/ \E i \in 1..Len(inflight) : FetchMentionsFailed(i)

SpecMarkAll == InitMarkAll /\ [][NextMarkAll]_vars

\* ------------------------------------------------------------------- claims
\* The ids of the records of a cache.
CacheIds(cache) == {cache[i].id : i \in 1..Len(cache)}

\* The record of mention id in a cache is hidden.
HiddenIn(cache, id) == \E i \in 1..Len(cache) : cache[i].id = id /\ cache[i].is_hidden

\* The record of mention id in a cache is visible.
VisibleIn(cache, id) == \E i \in 1..Len(cache) : cache[i].id = id /\ ~cache[i].is_hidden

\* C1 (hidden monotonicity): a record that is hidden in the cache is not made
\* visible again by the merge of a mention response, whatever the response
\* holds for its id.
C1_HiddenMonotonic ==
    [][lastOp'.op = "merge" =>
         \A id \in Ids : HiddenIn(localMentionsCache, id) =>
                             ~VisibleIn(localMentionsCache', id)]_vars

\* C2 (one record per id): in every reachable state no two records of the
\* cache, and no two records of its persisted copy, have the same id.
C2_OneRecordPerId ==
    /\ NoRepeatedId(localMentionsCache)
    /\ NoRepeatedId(storedMentions.value)

\* C2's case: with another sync still in flight, a merge has just left a
\* record for every id in the cache, one of them hidden, after an identity
\* change.
C2_Witness ==
    /\ lastOp.op = "merge"
    /\ lastOp.arg = MaxBatch
    /\ Len(inflight) > 0
    /\ CacheIds(localMentionsCache) = Ids
    /\ \E id \in Ids : HiddenIn(localMentionsCache, id)
    /\ prevUsername # ""

\* C3 (identity switch invalidation): once a save has replaced the username,
\* neither the cache nor its persisted copy holds a record fetched for the
\* replaced username.
C3_NoRecordOfPreviousIdentity ==
    prevUsername # "" =>
        /\ \A i \in 1..Len(localMentionsCache) :
              localMentionsCache[i].mentioned_user # prevUsername
        /\ \A i \in 1..Len(storedMentions.value) :
              storedMentions.value[i].mentioned_user # prevUsername

StoredHidden(item, id) ==
    /\ item.present
    /\ \E i \in 1..Len(item.value) :
          item.value[i].id = id /\ item.value[i].is_hidden = "true"

C7_MergeIdempotent ==
    replay.stage = 2 =>
        /\ localMentionsCache = replay.first
        /\ storedMentions = Item(Stringify(replay.first))

\* C7's case: a batch of two records has been merged twice over a cache that
\* held a hidden record; the cache holds two records of one timestamp.
C7_Witness ==
    /\ replay.stage = 2
    /\ Len(replay.batch) = MaxBatch
    /\ replay.batch[1].id = replay.batch[2].id
    /\ replay.batch[1].timestamp # replay.batch[2].timestamp
    /\ Len(localMentionsCache) = 2
    /\ localMentionsCache[1].timestamp = localMentionsCache[2].timestamp
    /\ \E i \in 1..2 : localMentionsCache[i].is_hidden

\* The instants of the visible records of a cache.
VisibleInstants(cache) ==
    {cache[i].timestamp : i \in {j \in 1..Len(cache) : ~cache[j].is_hidden}}

\* C8 (cursor correctness): the request a step sends carries as since the
\* greatest instant among the visible records of the cache it was computed
\* from, and no since when that cache has no visible record.
C8_CursorIsMaxVisible ==
    lastRequest.issued =>
        LET visible == VisibleInstants(localMentionsCache)
            since == lastRequest.url.since
        IN IF visible = {}
           THEN ~since.present
           ELSE /\ since.present
                /\ ParseISO(since.text) \in visible
                /\ \A t \in visible : t <= ParseISO(since.text)

\* C8's case: a tick has sent a request whose since is the instant of a
\* visible record although a hidden record of the cache is newer.
C8_Witness ==
    /\ lastOp.op = "tick"
    /\ lastRequest.issued
    /\ lastRequest.url.since.present
    /\ \E i \in 1..Len(localMentionsCache) :
          /\ localMentionsCache[i].is_hidden
          /\ localMentionsCache[i].timestamp > ParseISO(lastRequest.url.since.text)

C10_AlertOnlyForNewMention ==
    [][soundPlayed' =>
         CacheIds(localMentionsCache') \ CacheIds(localMentionsCache) # {}]_vars

\* C11 (one timer): in every reachable state at most one interval timer is
\* armed, and it is the one pollingIntervalId holds.
C11_OneTimer ==
    /\ Cardinality(liveTimers) <= 1
    /\ liveTimers = IF pollingIntervalId.active THEN {pollingIntervalId.handle} ELSE {}

\* C11's case: after the start at page load, a restart by a configuration
\* save and a restart by the click on another channel's tab, one timer is
\* armed.
C11_Witness ==
    /\ lastOp.op = "tab"
    /\ activeChannel # "trade"
    /\ storedConfig = Item(ConfigToJSON(currentUserConfig))
    /\ pollingIntervalId.active
    /\ Cardinality(liveTimers) = 1

\* C12 (a failed sync keeps the schedule): the step that handles a failed
\* mention fetch leaves pollingIntervalId and the armed timers as they were,
\* and when a timer is armed its next tick can fire.
C12_FailureKeepsSchedule ==
    [][lastOp'.op = "fetchFail" =>
         /\ pollingIntervalId' = pollingIntervalId
         /\ liveTimers' = liveTimers
         /\ (liveTimers # {} => TickEnabled')]_vars

\* C12's case: after a failed fetch, with its error message still shown,
\* a tick of the timer has sent the next mention request.
C12_Witness ==
    /\ lastOp.op = "tick"
    /\ mentionsLog.error
    /\ lastRequest.issued
    /\ pollingIntervalId.active

\* C13 (tab switches leave mention polling alone): when a timer that drives
\* fetchMentions is armed before a tab click, one is armed after it.
C13_TabKeepsMentionPolling ==
    [][lastOp'.op = "tab" => (liveTimers # {} => liveTimers' # {})]_vars

\* C14 (malformed stored blob): when the page is loaded on a localStorage
\* whose config or mention entry is no JSON text, the load ends with an empty
\* cache and with the polling started.
C14_MalformedBlobLoads ==
    [][(phase = "loading" /\ phase' = "ready"
          /\ (ParseThrows(storedConfig) \/ ParseThrows(storedMentions))) =>
         /\ localMentionsCache' = <<>>
         /\ pollingIntervalId'.active
         /\ liveTimers' # {}]_vars

\* The steps that end the handling of a DELETE response.
HideEnded(op) == op.op \in {"hideOk", "hideFail"}

C16_NoRequestForEmptyUsername ==
    lastRequest.issued => lastRequest.url.username # ""

\* The instant a request's since bound stands for.
CursorInstant(since) == ParseISO(since.text)

\* C17 (the cursor does not regress on a hide): when the hide of a visible
\* mention leaves a cursor, it is not earlier than the cursor before.
C17_CursorNotEarlierAfterHide ==
    [][(/\ lastOp'.op = "hideOk"
        /\ VisibleIn(localMentionsCache, lastOp'.arg)
        /\ LatestSince(localMentionsCache).present
        /\ LatestSince(localMentionsCache').present) =>
         CursorInstant(LatestSince(localMentionsCache')) >=
             CursorInstant(LatestSince(localMentionsCache))]_vars

\* The ids of the records of a response.
BatchIds(batch) == {batch[i].id : i \in 1..Len(batch)}

\* The record of mention id in a cache that holds it.
RecordOf(cache, id) == cache[FindIndex(cache, id)]

\* The last record a response holds for mention id, as the cache stores it.
LastOf(batch, id) ==
    LET k == CHOOSE i \in 1..Len(batch) :
                 /\ batch[i].id = id
                 /\ \A j \in (i + 1)..Len(batch) : batch[j].id # id
    IN Normalise(batch[k])

\* C18 (merge result): the merge of a response leaves a record for exactly
\* the ids cached before and the ids of the response; a record of the
\* response has the server's timestamp and payload; a record the response
\* does not hold is as it was; a record new to the cache is hidden exactly
\* when the server marked it hidden.
C18_MergeResult ==
    [][replay'.stage = replay.stage + 1 =>
         LET before == localMentionsCache
             after == localMentionsCache'
             batch == replay.batch
         IN /\ CacheIds(after) = CacheIds(before) \cup BatchIds(batch)
            /\ Len(after) = Cardinality(CacheIds(after))
            /\ \A id \in BatchIds(batch) :
                  /\ RecordOf(after, id).timestamp = LastOf(batch, id).timestamp
                  /\ RecordOf(after, id).mentioned_user = LastOf(batch, id).mentioned_user
            /\ \A id \in CacheIds(before) \ BatchIds(batch) :
                  RecordOf(after, id) = RecordOf(before, id)
            /\ \A id \in BatchIds(batch) \ CacheIds(before) :
                  RecordOf(after, id).is_hidden = LastOf(batch, id).is_hidden]_vars

\* C18's case: a response of two records, one of them marked hidden, has
\* been merged into a cache that held one of the two ids and now holds both.
C18_Witness ==
    /\ replay.stage = 1
    /\ Len(replay.batch) = MaxBatch
    /\ replay.batch[1].id # replay.batch[2].id
    /\ replay.batch[1].is_hidden = "true"
    /\ Len(localMentionsCache) = 2
    /\ \E i \in 1..2 : localMentionsCache[i].is_hidden
    /\ \E i \in 1..2 : ~localMentionsCache[i].is_hidden

\* C19 (a username change forces a full resync): the save that changes the
\* username sends, in the same step, a mention request for the new username
\* with no since bound, behind whatever requests are in flight.
C19_FullResyncOnUsernameChange ==
    [][(lastOp'.op = "save"
          /\ currentUserConfig'.username # currentUserConfig.username) =>
         /\ lastRequest'.issued
         /\ lastRequest'.url.username = currentUserConfig'.username
         /\ ~lastRequest'.url.since.present
         /\ inflight' = Append(inflight, currentUserConfig'.username)]_vars

\* C19's case: the username was changed while mentions were on screen and a
\* request for the old username was in flight; the new request is behind it.
C19_Witness ==
    /\ lastOp.op = "save"
    /\ lastRequest.issued
    /\ Len(mentionsLog.items) > 0
    /\ Len(inflight) = 2
    /\ inflight[1] = prevUsername
    /\ inflight[2] = currentUserConfig.username
    /\ inflight[1] # inflight[2]

\* C20 (the rendered list is the visible cache): after a merge, a failed
\* fetch, a hide and the load from storage, MENTIONS_LOG_ELEMENT shows no
\* error text and exactly the cached mentions that are not hidden, in the
\* order of the cache.
C20_RenderedIsVisibleCache ==
    lastOp.op \in {"merge", "fetchFail", "hideOk", "hideFail", "load"} =>
        /\ ~mentionsLog.error
        /\ mentionsLog.items = RenderedIds(localMentionsCache)

\* C21: the polling interval of the configuration is a positive integer in
\* every reachable state, whatever text the form is submitted with, and a
\* set timer has a positive period.
C21_IntervalPositive ==
    /\ currentUserConfig.polling_interval > 0
    /\ pollingIntervalId.active => pollingIntervalId.period > 0

\* C22: the configuration changes only in a save of the form or in the
\* startup load, and after every save the stored configuration is the
\* configuration in memory.
C22_SavePersistsConfig ==
    [][/\ currentUserConfig' # currentUserConfig
           => lastOp'.op \in {"save", "load", "script"}
       /\ lastOp'.op = "save"
           => LoadedConfig(DefaultConfig, storedConfig') = currentUserConfig']_vars

\* C23: stopPolling() with no timer set changes nothing, after stopPolling()
\* no timer is armed and no tick can start, a tick starts only from an armed
\* timer, and a timer is armed again only by a handler that starts polling.
C23_StopIdempotentEffective ==
    [][/\ lastOp' = Op("tab", 1)
           => /\ liveTimers' = {}
              /\ ~pollingIntervalId'.active
              /\ ~TickEnabled'
              /\ ~pollingIntervalId.active
                  => pollingIntervalId' = pollingIntervalId /\ liveTimers' = liveTimers
       /\ lastOp'.op = "tick" /\ lastOp.op = "tab" => lastOp.arg = 0
       /\ lastOp'.op = "tick" => liveTimers # {}
       /\ liveTimers = {} /\ liveTimers' # {}
           => \/ lastOp'.op \in {"load", "save"}
              \/ lastOp' = Op("tab", 0)]_vars

\* C23: the advanced-search tab was clicked on a page whose polling never
\* started (the load threw); nothing is in flight, so only the missing timer
\* keeps the tick from starting.
C23_Witness ==
    /\ lastOp = Op("tab", 1)
    /\ ParseThrows(storedConfig)
    /\ phase = "ready"
    /\ inflight = <<>>
    /\ liveTimers = {}
    /\ ~TickEnabled

\* C24: the load gives every stored record one cached record, in the stored
\* order; a stored record without is_hidden is cached with is_hidden false,
\* a record stored with is_hidden true is cached with is_hidden true.
C24_LoadDefaultsHidden ==
    [][lastOp'.op = "load" /\ lastOp.op = "script" /\ storedMentions.present
           => /\ Len(localMentionsCache') = Len(storedMentions.value)
              /\ \A i \in 1..Len(storedMentions.value) :
                    LET j == storedMentions.value[i]
                        m == localMentionsCache'[i]
                    IN /\ m.id = j.id
                       /\ j.is_hidden = "undefined" => m.is_hidden = FALSE
                       /\ j.is_hidden = "true" => m.is_hidden = TRUE]_vars

\* C24: the page has loaded a cache stored by an earlier revision: its record
\* without is_hidden is visible, its hidden record is hidden.
C24_Witness ==
    /\ lastOp.op = "load"
    /\ storedMentions = Item(OldSchemaCache)
    /\ Len(localMentionsCache) = Len(OldSchemaCache)
    /\ \E i, k \in 1..Len(localMentionsCache) :
          /\ OldSchemaCache[i].is_hidden = "undefined"
          /\ ~localMentionsCache[i].is_hidden
          /\ OldSchemaCache[k].is_hidden = "true"
          /\ localMentionsCache[k].is_hidden

\* C25: a click on the update button with more than 5 names left after
\* sanitisation is refused: the stored list and the textarea stay, no
\* preferences request is sent, the user is alerted; and no stored list and
\* no request ever has more than 5 names.
C25_MailboxLimit ==
    [][/\ mailbox'.op = "click"
          /\ Len(SanitizedUsernames(mailbox.textarea)) > MailboxLimit
           => /\ mailbox'.stored = mailbox.stored
              /\ mailbox'.textarea = mailbox.textarea
              /\ mailbox'.posts = mailbox.posts
              /\ ~mailbox'.posted
              /\ mailbox'.alerted
       /\ Len(mailbox'.stored.value) <= MailboxLimit
       /\ \A i \in 1..Len(mailbox'.posts) : Len(mailbox'.posts[i]) <= MailboxLimit]_vars

\* C25: the button was clicked on a textarea of more lines than sanitised
\* names, with more than 5 names, over a list stored before.
C25_Witness ==
    /\ mailbox.op = "click"
    /\ mailbox.alerted
    /\ Len(SanitizedUsernames(mailbox.textarea)) > MailboxLimit
    /\ SanitizedUsernames(mailbox.textarea) # mailbox.textarea
    /\ mailbox.stored.present
    /\ Len(mailbox.stored.value) = MailboxLimit
    /\ mailbox.posts = <<>>

\* C26: once the page has loaded, the stored cache read back is the cache in
\* memory (the same records with the same hidden flags in the same order),
\* after every sync, hide, save and reload.
C26_PersistedEqualsMemory ==
    phase = "ready" => LoadedCache(<<>>, storedMentions) = localMentionsCache

\* C26: a hide has completed on a cache of a visible and a hidden record, and
\* the stored cache holds both as memory does.
C26_Witness ==
    /\ lastOp.op = "hideOk"
    /\ storedMentions.present
    /\ Len(localMentionsCache) = MaxId
    /\ \E i, k \in 1..Len(localMentionsCache) :
          /\ localMentionsCache[i].id = lastOp.arg
          /\ localMentionsCache[i].is_hidden
          /\ ~localMentionsCache[k].is_hidden
          /\ storedMentions.value[i].is_hidden = "true"
          /\ storedMentions.value[k].is_hidden = "false"

\* C27: the cache is sorted by timestamp, latest first, in every state: after
\* each sync, each hide, each save and each load of what was stored.
C27_CacheSortedDesc ==
    /\ SortedDesc(localMentionsCache)
    /\ storedMentions.present => SortedDesc(LoadedCache(<<>>, storedMentions))

\* C27: a sync on a reloaded page has put a later mention before the earlier
\* one loaded from storage.
C27_Witness ==
    /\ lastOp.op = "merge"
    /\ lastOp.arg > 0
    /\ Len(localMentionsCache) = MaxId
    /\ localMentionsCache[1].timestamp > localMentionsCache[2].timestamp
    /\ localMentionsCache[1].id > localMentionsCache[2].id
    /\ localMentionsCache[2].is_hidden

\* The records two responses hold for one id are one and the same record.
SameCopies(batch, second) ==
    LET both == batch \o second
    IN \A i, j \in 1..Len(both) : both[i].id = both[j].id => both[i] = both[j]

\* C28: two responses that hold the same copy of every id they share give
\* the same cache, in the same order, whichever of them is merged first.
C28_ArrivalOrderIrrelevant ==
    (replay.stage = 2 /\ SameCopies(replay.batch, replay.second))
        => localMentionsCache =
               MergedCache(MergedCache(replay.first, replay.second), replay.batch)

\* C29: a response is merged and stored whether the polling runs or was
\* stopped while the request was in flight: every id of the response is
\* cached with the timestamp and the payload of the response's last record
\* for it (so with those of the response merged last), beside the ids cached
\* before, and the stored cache is the cache in memory.
C29_LateResponseMerged ==
    [][replay'.stage = replay.stage + 1 =>
         LET batch == IF replay.stage = 0 THEN replay.batch ELSE replay.second
         IN /\ CacheIds(localMentionsCache') =
                   CacheIds(localMentionsCache) \cup BatchIds(batch)
            /\ \A id \in BatchIds(batch) :
                  /\ RecordOf(localMentionsCache', id).timestamp
                        = LastOf(batch, id).timestamp
                  /\ RecordOf(localMentionsCache', id).mentioned_user
                        = LastOf(batch, id).mentioned_user
            /\ storedMentions' = Item(Stringify(localMentionsCache'))]_vars

\* C29: both responses arrived after the polling was stopped, with two
\* timestamps for one id, and the cache and the storage hold the second.
C29_Witness ==
    /\ replay.stage = 2
    /\ lastOp.op = "merge"
    /\ liveTimers = {}
    /\ ~pollingIntervalId.active
    /\ replay.first = <<>>
    /\ storedMentions = Item(Stringify(localMentionsCache))
    /\ \E id \in BatchIds(replay.batch) \cap BatchIds(replay.second) :
          /\ LastOf(replay.batch, id).timestamp # LastOf(replay.second, id).timestamp
          /\ RecordOf(localMentionsCache, id).timestamp
                = LastOf(replay.second, id).timestamp

\* C30: a click on a hide button and the end of its DELETE change nothing of
\* the cache but the is_hidden flag of the record of that id, set when the
\* DELETE succeeded: the cache keeps its length and its order, every other
\* record and every other field stay, and so does the configuration, in
\* memory and in storage.
C30_HideFrame ==
    [][lastOp'.op \in {"click", "hideOk", "hideFail"} =>
         /\ Len(localMentionsCache') = Len(localMentionsCache)
         /\ \A i \in 1..Len(localMentionsCache) :
               localMentionsCache'[i] =
                   IF lastOp'.op = "hideOk" /\ localMentionsCache[i].id = lastOp'.arg
                   THEN [localMentionsCache[i] EXCEPT !.is_hidden = TRUE]
                   ELSE localMentionsCache[i]
         /\ currentUserConfig' = currentUserConfig
         /\ storedConfig' = storedConfig]_vars

\* C30: a hide has succeeded under a saved configuration, on a cache that
\* holds another, visible mention before the hidden one.
C30_Witness ==
    /\ lastOp.op = "hideOk"
    /\ storedConfig.present
    /\ currentUserConfig.play_alert
    /\ Len(localMentionsCache) = MaxId
    /\ localMentionsCache[2].id = lastOp.arg
    /\ localMentionsCache[2].is_hidden
    /\ ~localMentionsCache[1].is_hidden

\* C31: a timer armed in the browser is the timer pollingIntervalId holds,
\* and its period is the polling interval of the configuration in memory
\* (in milliseconds): no step changes the interval and leaves a timer of the
\* old period running.
C31_PeriodIsConfiguredInterval ==
    /\ liveTimers # {} =>
          pollingIntervalId.active /\ liveTimers = {pollingIntervalId.handle}
    /\ pollingIntervalId.active =>
          pollingIntervalId.period = IntervalMs(currentUserConfig.polling_interval)

\* C31: a save has set an interval that no stored or default configuration
\* has, over the configuration a load had set, and the timer runs with it.
C31_Witness ==
    /\ lastOp.op = "save"
    /\ currentUserConfig.polling_interval = ParseInt("-5")
    /\ currentUserConfig.username = EarlierConfig.username
    /\ pollingIntervalId.active
    /\ liveTimers = {pollingIntervalId.handle}
    /\ pollingIntervalId.period = IntervalMs(ParseInt("-5"))

\* C32: on a page whose load started the polling, a click on a channel tab
\* that follows the click on the advanced-search tab leaves a timer armed,
\* whichever channel it is.
C32_PollingResumesAfterSearch ==
    [][(/\ ~ParseThrows(storedConfig)
        /\ ~ParseThrows(storedMentions)
        /\ lastOp = Op("tab", 1)
        /\ lastOp' = Op("tab", 0))
           => /\ liveTimers' # {}
              /\ pollingIntervalId'.active]_vars

MarkedIds == {replay.batch[i] : i \in 1..Len(replay.batch)}

C35_MailboxPollingStopsForGood ==
    [][/\ mailbox'.op = "statusFail" => ~mailbox'.pollingInterval
       /\ ~mailbox.pollingInterval => ~mailbox'.pollingInterval
       /\ mailbox'.op = "statusTick" /\ mailbox' # mailbox
           => mailbox.pollingInterval]_vars

\* C35: a list update has succeeded after the polling had stopped: its one
\* status request is in flight, and no timer is armed.
C35_Witness ==
    /\ mailbox.op = "postOk"
    /\ ~mailbox.pollingInterval
    /\ mailbox.fetches > 0
    /\ mailbox.stored.present
    /\ Len(mailbox.stored.value) > 0

====
